---- MODULE Spec2Model ----
(***************************************************************************)
(* Model of the datalogging thermometer (src/src/main.rs): the serial      *)
(* ingestion thread (read_input_from_serial, append_data), the UI loop     *)
(* (update), the autosave thread and the manual export threads             *)
(* (save_to_csv), sharing three std::sync::Mutex values.                   *)
(*                                                                         *)
(* Text is a sequence of one-character strings.  A Rust panic unwinds the  *)
(* panicking thread: every MutexGuard it holds is dropped and its mutex is *)
(* poisoned, after which lock().unwrap() panics in every other thread.  A  *)
(* panic of the UI thread (the main thread) ends the process.  f64 values  *)
(* are kept in thousandths.  sent and dispatched record what the device    *)
(* has sent and which lines append_data was called with.                   *)
(***************************************************************************)
EXTENDS Integers, Sequences, FiniteSets, TLC

\* ---------------------------------------------------------------- bounds
\* Scaled stand-ins for NUM_CHANNELS (8) and NUM_EXAMPLES (100_000).
NUM_CHANNELS == 2
NUM_EXAMPLES == 1
\* What the surroundings do in one run, counted together: lines the device
\* sends, clicks in the UI on Save Data, a checkbox or a colour button,
\* seconds the clock moves on, ends of the autosave thread's sleep.
MaxEvents == 2

\* ------------------------------------------------------- program constants
AUTOSAVE_SECONDS_INTERVAL == 60
READ_BUF_LEN == 100

CR == "\r"
Digits == {"0", "1", "2", "3", "4", "5", "6", "7", "8", "9"}
\* InfoPrefixes without the minus sign
InfoPrefixes_NoMinus == {"#", "?", "/"}
\* Line 99
InfoPrefixes == {"#", "?", "/", "-"}
None == <<>>
Some(v) == <<v>>

Chan == 0 .. (NUM_CHANNELS - 1)
Min(a, b) == IF a < b THEN a ELSE b
Max(a, b) == IF a < b THEN b ELSE a

\* ------------------------------------------------------------------ text
\* str::find: index of the first occurrence of c, 0 when there is none.
RECURSIVE FindFrom(_, _, _)
FindFrom(s, c, i) ==
    IF i > Len(s) THEN 0
    ELSE IF s[i] = c THEN i
    ELSE FindFrom(s, c, i + 1)
Find(s, c) == FindFrom(s, c, 1)

\* str::split(','): the fields between commas; a text without comma is one field.
RECURSIVE Split(_)
Split(s) ==
    LET p == Find(s, ",") IN
    IF p = 0 THEN <<s>>
    ELSE <<SubSeq(s, 1, p - 1)>> \o Split(SubSeq(s, p + 1, Len(s)))

\* Iterator::take(n)
Take(q, n) == SubSeq(q, 1, Min(n, Len(q)))

\* str::trim_end_matches('C'): every trailing C is removed.
RECURSIVE TrimEndC(_)
TrimEndC(s) ==
    IF Len(s) > 0 /\ s[Len(s)] = "C" THEN TrimEndC(SubSeq(s, 1, Len(s) - 1)) ELSE s

DigitVal(c) == CHOOSE d \in 0 .. 9 : ToString(d) = c
AllDigits(s) == \A i \in 1 .. Len(s) : s[i] \in Digits

RECURSIVE DecValue(_)
DecValue(s) ==
    IF Len(s) = 0 THEN 0
    ELSE 10 * DecValue(SubSeq(s, 1, Len(s) - 1)) + DigitVal(s[Len(s)])

\* str::parse::<u64>: an optional '+', then one or more decimal digits.
U64Body(s) == IF Len(s) > 0 /\ s[1] = "+" THEN Tail(s) ELSE s
ParsesU64(s) == Len(U64Body(s)) > 0 /\ AllDigits(U64Body(s))
ParseU64(s) == DecValue(U64Body(s))

\* str::parse::<f64>, for decimal notation: an optional sign, digits with
\* at most one '.', at least one digit.  The value is kept in thousandths.
F64Neg(s) == Len(s) > 0 /\ s[1] = "-"
F64Body(s) == IF Len(s) > 0 /\ s[1] \in {"+", "-"} THEN Tail(s) ELSE s
F64Int(s) ==
    LET b == F64Body(s) p == Find(b, ".") IN IF p = 0 THEN b ELSE SubSeq(b, 1, p - 1)
F64Frac(s) ==
    LET b == F64Body(s) p == Find(b, ".") IN IF p = 0 THEN <<>> ELSE SubSeq(b, p + 1, Len(b))
ParsesF64(s) ==
    /\ AllDigits(F64Int(s))
    /\ AllDigits(F64Frac(s))
    /\ Len(F64Int(s)) + Len(F64Frac(s)) > 0
ParseF64(s) ==
    LET f == Take(F64Frac(s) \o <<"0", "0", "0">>, 3)
        m == 1000 * DecValue(F64Int(s)) + DecValue(f)
    IN IF F64Neg(s) THEN 0 - m ELSE m


\* u64::to_string
RECURSIVE U64ToText(_)
U64ToText(n) ==
    IF n < 10 THEN <<ToString(n)>> ELSE U64ToText(n \div 10) \o <<ToString(n % 10)>>

\* f64::to_string of a value kept in thousandths: no trailing zeros, no
\* decimal point for a whole number.
RECURSIVE TrimEndZeros(_)
TrimEndZeros(s) ==
    IF Len(s) > 0 /\ s[Len(s)] = "0" THEN TrimEndZeros(SubSeq(s, 1, Len(s) - 1)) ELSE s
F64ToText(m) ==
    LET a == IF m < 0 THEN 0 - m ELSE m
        f == a % 1000
        frac == TrimEndZeros(<<ToString(f \div 100), ToString((f \div 10) % 10), ToString(f % 10)>>)
    IN (IF m < 0 THEN <<"-">> ELSE <<>>)
       \o U64ToText(a \div 1000)
       \o (IF frac = <<>> THEN <<>> ELSE <<".">> \o frac)

\* chrono::Local::now().format(..): the wall clock, counted in whole
\* seconds, written out; "%Y-%m-%d %H-%M-%S" and "%Y-%m-%d %H:%M:%S%.3f"
\* differ only below the second.
FormatFileTime(t) == U64ToText(t)
FormatReceipt(t) == U64ToText(t)

\* ------------------------------------------------------------- the threads
Ingest == <<"ingest", 0>>
UI == <<"ui", 0>>
Autosave == <<"autosave", 0>>
ManualThreads == {<<"manual", i>> : i \in 1 .. MaxEvents}
SaveThreads == {Autosave} \cup ManualThreads
Threads == {Ingest, UI} \cup SaveThreads
NoThread == <<"none", 0>>

Mutexes == {"channels", "timestamp_datetime", "selected_port_name"}
StoreMutexes == {"channels", "timestamp_datetime"}

\* serialport::available_ports(): the names the combo box offers.
PortNames == {"COM1"}

DEFAULT_LINE_COLOURS == <<"RED", "GREEN", "BLUE", "YELLOW", "MAGENTA", "CYAN", "WHITE", "GRAY">>
\* What the colour button can set.
PickedColours == {"BLACK"}

\* 1000 * sin(20 * i), rounded; the j / 3000 term of the dummy data moves
\* only channel 0 by a thousandth within the first few samples.
SinMilli20 == <<0, 913, 745, -305, -994, -506, 581, 980>>
SeedMilli(i, j) == IF i = 0 THEN (j + 1) \div 3 ELSE SinMilli20[i + 1]

\* ---------------------------------------------------- what the device sends
RECURSIVE Rep(_, _)
Rep(n, x) == IF n <= 0 THEN <<>> ELSE x \o Rep(n - 1, x)

FullLine == <<"1">> \o Rep(NUM_CHANNELS, <<",", "2", "C">>)
GapLine == <<"2", ",">> \o Rep(NUM_CHANNELS - 1, <<",", "1", ".", "5", "C">>)
ShortLine == <<"3">> \o Rep(NUM_CHANNELS - 1, <<",", "2", "C">>)
LongLine == <<"4">> \o Rep(NUM_CHANNELS + 1, <<",", "2">>)
InfoLine == <<"#", "s">>
EmptyLine == <<>>
BadTimeLine == <<"x">> \o Rep(NUM_CHANNELS, <<",", "2", "C">>)
BadFieldLine == <<"5">> \o Rep(NUM_CHANNELS - 1, <<",", "2", "C">>) \o <<",", "x", "C">>
FullLines == {FullLine, GapLine, LongLine}
Lines ==
    FullLines \cup {ShortLine, InfoLine, EmptyLine, BadTimeLine, BadFieldLine}

VARIABLES
    pc,                  \* where each thread is
    lockHolder,          \* mutex -> the thread holding its guard
    poisoned,            \* mutex -> the thread whose panic poisoned it
    channels,            \* [Channel; NUM_CHANNELS]: data, enabled, colour
    timestamp_datetime,  \* Vec<(u64, String)>
    selected_port_name,
    inputs,              \* the lines the device can send
    widths,              \* the widths the window can have
    wholeReads,          \* the driver hands over all it has received at each read
    events,              \* what the surroundings have done so far
    wire,                \* bytes sent and not yet read
    sent,                \* every byte the device has sent since the port was opened
    port,                \* name of the opened port, "" before open
    serial_buf,
    new_data,            \* the line append_data is working on
    time,                \* append_data: the parsed timestamp
    datetime_received,
    dispatched,          \* the lines handed to append_data so far
    window_size,         \* update: the x of available_size_before_wrap()
    plotted,             \* update: channel -> the points handed to plot_ui.line
    now,                 \* the wall clock, in seconds
    wakeAt,              \* when the autosave thread's sleep is over
    files,               \* the files created: [name, by, call]
    fileName,            \* save_to_csv: the name this call writes to
    written              \* save_to_csv: the records this call wrote, header first

vars ==
    <<pc, lockHolder, poisoned, channels, timestamp_datetime, selected_port_name,
      inputs, widths, wholeReads, events, wire, sent, port, serial_buf, new_data, time,
      datetime_received, dispatched, window_size, plotted, now, wakeAt, files, fileName,
      written>>

storeVars == <<channels, timestamp_datetime>>
lockVars == <<lockHolder, poisoned>>
deviceVars == <<inputs, wholeReads, wire, sent>>
ingestVars == <<port, serial_buf, new_data, time, datetime_received, dispatched>>
clockVars == <<now, wakeAt>>
saveVars == <<files, fileName, written>>
plotVars == <<widths, window_size, plotted>>

\* The widths of the window: the one it has in the runs with the device, and
\* the ones the plot is computed for on its own.
FrameWidths == {2}
Widths == {1, 2, 51, 100}

\* main(): the state when the three loops start, but for the store.
InitRest(lines, whole, ws) ==
    /\ pc = [t \in Threads |->
               IF t = Ingest THEN "poll"
               ELSE IF t = UI THEN "select"
               ELSE IF t = Autosave THEN "sleep"
               ELSE "unspawned"]
    /\ lockHolder = [m \in Mutexes |-> NoThread]
    /\ poisoned = [m \in Mutexes |-> NoThread]
    /\ selected_port_name = ""
    /\ inputs = lines
    /\ widths = ws
    /\ wholeReads = whole
    /\ events = 0
    /\ wire = <<>>
    /\ sent = <<>>
    /\ port = ""
    /\ serial_buf = <<>>
    /\ new_data = <<>>
    /\ time = 0
    /\ datetime_received = <<>>
    /\ dispatched = <<>>
    /\ window_size = 0
    /\ plotted = [c \in Chan |-> <<>>]
    /\ now = 0
    /\ wakeAt = AUTOSAVE_SECONDS_INTERVAL
    /\ files = {}
    /\ fileName = [s \in SaveThreads |-> <<>>]
    /\ written = [s \in SaveThreads |-> <<>>]

\* main(), lines 230-239: the store is seeded with NUM_EXAMPLES samples.
InitWith(lines, whole) ==
    /\ channels = [i \in Chan |->
                     [data |-> [j \in 1 .. NUM_EXAMPLES |-> <<j - 1, Some(SeedMilli(i, j - 1))>>],
                      enabled |-> TRUE,
                      colour |-> DEFAULT_LINE_COLOURS[i + 1]]]
    /\ timestamp_datetime = [j \in 1 .. NUM_EXAMPLES |-> <<0, <<"A", "B", "C", "D">>>>]
    /\ InitRest(lines, whole, FrameWidths)

Init == InitWith(Lines, TRUE)

\* The process lives until the main thread (the UI) panics.
ProcessAlive == pc[UI] # "panicked"

Holds(t) == {m \in Mutexes : lockHolder[m] = t}

\* A panic unwinds t: its guards are dropped and their mutexes poisoned.
Panic(t) ==
    /\ pc' = [pc EXCEPT ![t] = "panicked"]
    /\ lockHolder' = [m \in Mutexes |-> IF lockHolder[m] = t THEN NoThread ELSE lockHolder[m]]
    /\ poisoned' = [m \in Mutexes |-> IF lockHolder[m] = t THEN t ELSE poisoned[m]]

\* LockUnwrap with the ingestion thread taking timestamp_datetime where the
\* code takes channels, and channels where it takes timestamp_datetime.
LockUnwrap_IngestReversed(t, m, next) ==
    LET taken == IF t # Ingest THEN m
                 ELSE IF m = "channels" THEN "timestamp_datetime"
                 ELSE IF m = "timestamp_datetime" THEN "channels"
                 ELSE m
    IN /\ lockHolder[taken] = NoThread
       /\ IF poisoned[taken] # NoThread
          THEN Panic(t)
          ELSE /\ lockHolder' = [lockHolder EXCEPT ![taken] = t]
               /\ pc' = [pc EXCEPT ![t] = next]
               /\ UNCHANGED poisoned

\* mutex.lock().unwrap() by t: waits while another thread holds the guard,
\* panics when the mutex is poisoned, else takes the guard and goes to `next`.
LockUnwrap(t, m, next) ==
    /\ lockHolder[m] = NoThread
    /\ IF poisoned[m] # NoThread
       THEN Panic(t)
       ELSE /\ lockHolder' = [lockHolder EXCEPT ![m] = t]
            /\ pc' = [pc EXCEPT ![t] = next]
            /\ UNCHANGED poisoned


\* ------------------------------------------------------------ the device
\* The device sends one more line, CR-terminated, once the port is open.
DeviceSend ==
    /\ ProcessAlive
    /\ port # ""
    /\ events < MaxEvents
    /\ events' = events + 1
    /\ \E l \in inputs :
         /\ wire' = wire \o l \o <<CR>>
         /\ sent' = sent \o l \o <<CR>>
    /\ UNCHANGED <<plotVars, pc, lockVars, storeVars, selected_port_name, inputs, wholeReads,
                   ingestVars, clockVars, saveVars>>

\* The wall clock moves on by a second.
Tick ==
    /\ ProcessAlive
    /\ events < MaxEvents
    /\ events' = events + 1
    /\ now' = now + 1
    /\ UNCHANGED <<plotVars, pc, lockVars, storeVars, selected_port_name, deviceVars, ingestVars,
                   wakeAt, saveVars>>

\* ------------------------------------------------- read_input_from_serial
\* IngestPoll with the wait left out: the loop is left whatever the name is.
IngestPoll_NoWait ==
    /\ ProcessAlive
    /\ pc[Ingest] = "poll"
    /\ lockHolder["selected_port_name"] = NoThread
    /\ pc' = [pc EXCEPT ![Ingest] = "connect"]
    /\ UNCHANGED <<plotVars, lockVars, storeVars, selected_port_name, deviceVars, ingestVars,
                   clockVars, saveVars, events>>

\* Line 57: the handshake poll; the guard is dropped with the condition.
IngestPoll ==
    /\ ProcessAlive
    /\ pc[Ingest] = "poll"
    /\ lockHolder["selected_port_name"] = NoThread
    /\ pc' = [pc EXCEPT ![Ingest] = IF selected_port_name = "" THEN "sleep" ELSE "connect"]
    /\ UNCHANGED <<plotVars, lockVars, storeVars, selected_port_name, deviceVars, ingestVars,
                   clockVars, saveVars, events>>

\* Line 58: sleep a second, poll again.
IngestSleep ==
    /\ ProcessAlive
    /\ pc[Ingest] = "sleep"
    /\ pc' = [pc EXCEPT ![Ingest] = "poll"]
    /\ UNCHANGED <<plotVars, lockVars, storeVars, selected_port_name, deviceVars, ingestVars,
                   clockVars, saveVars, events>>

\* IngestConnect with the channels guard taken before the port is opened: a
\* failure to open panics with the guard held.
IngestConnect_HoldsStore ==
    /\ ProcessAlive
    /\ pc[Ingest] = "connect"
    /\ lockHolder["selected_port_name"] = NoThread
    /\ lockHolder["channels"] = NoThread
    /\ \E opened \in BOOLEAN :
         IF opened
         THEN /\ port' = selected_port_name
              /\ pc' = [pc EXCEPT ![Ingest] = "read"]
              /\ UNCHANGED lockVars
         ELSE /\ pc' = [pc EXCEPT ![Ingest] = "panicked"]
              /\ poisoned' = [poisoned EXCEPT !["channels"] = Ingest]
              /\ UNCHANGED <<lockHolder, port>>
    /\ UNCHANGED <<plotVars, storeVars, selected_port_name, deviceVars, serial_buf, new_data, time,
                   datetime_received, dispatched, clockVars, saveVars, events>>

\* Lines 65-72: clone the selected name and open that port; a failure to
\* open panics (expect).
IngestConnect ==
    /\ ProcessAlive
    /\ pc[Ingest] = "connect"
    /\ lockHolder["selected_port_name"] = NoThread
    /\ \E opened \in BOOLEAN :
         IF opened
         THEN /\ port' = selected_port_name
              /\ pc' = [pc EXCEPT ![Ingest] = "read"]
              /\ UNCHANGED lockVars
         ELSE /\ Panic(Ingest)
              /\ UNCHANGED port
    /\ UNCHANGED <<plotVars, storeVars, selected_port_name, deviceVars, serial_buf, new_data, time,
                   datetime_received, dispatched, clockVars, saveVars, events>>

\* What a read can return: some of the bytes received, READ_BUF_LEN at most.
ReadSizes ==
    IF wholeReads
    THEN {Min(Len(wire), READ_BUF_LEN)} \ {0}
    ELSE 1 .. Min(Len(wire), READ_BUF_LEN)

\* Lines 75-82: a read that returns t > 0 bytes, pushed onto serial_buf.
IngestReadData ==
    /\ ProcessAlive
    /\ pc[Ingest] = "read"
    /\ \E t \in ReadSizes :
         /\ serial_buf' = serial_buf \o SubSeq(wire, 1, t)
         /\ wire' = SubSeq(wire, t + 1, Len(wire))
    /\ pc' = [pc EXCEPT ![Ingest] = "dispatch"]
    /\ UNCHANGED <<plotVars, lockVars, storeVars, selected_port_name, inputs, wholeReads,
                   sent,
                   port, new_data, time, datetime_received, dispatched, clockVars, saveVars,
                   events>>

\* Lines 78-80, 89, 90: a read of 0 bytes, a timeout or another read error:
\* the loop goes round.
IngestReadIdle ==
    /\ ProcessAlive
    /\ pc[Ingest] = "read"
    /\ \E outcome \in {"zero", "TimedOut", "error"} : pc' = [pc EXCEPT ![Ingest] = "read"]
    /\ UNCHANGED <<plotVars, lockVars, storeVars, selected_port_name, deviceVars, ingestVars,
                   clockVars, saveVars, events>>

\* Lines 83-85: while serial_buf holds a CR, hand the text before it to
\* append_data; without one, read again.
IngestDispatch ==
    /\ ProcessAlive
    /\ pc[Ingest] = "dispatch"
    /\ LET pos == Find(serial_buf, CR) IN
         IF pos = 0
         THEN /\ pc' = [pc EXCEPT ![Ingest] = "read"]
              /\ UNCHANGED <<new_data, dispatched>>
         ELSE /\ pc' = [pc EXCEPT ![Ingest] = "append"]
              /\ new_data' = SubSeq(serial_buf, 1, pos - 1)
              /\ dispatched' = Append(dispatched, SubSeq(serial_buf, 1, pos - 1))
    /\ UNCHANGED <<plotVars, lockVars, storeVars, selected_port_name, deviceVars, port, serial_buf,
                   time, datetime_received, clockVars, saveVars, events>>

\* Line 86, after append_data has returned: the line and its CR leave serial_buf.
AfterLine(buf) == SubSeq(buf, Find(buf, CR) + 1, Len(buf))

\* ------------------------------------------------------------ append_data
IsInfoString(l) == Len(l) > 0 /\ l[1] \in InfoPrefixes
\* split_data after its first next(), cut by take(NUM_CHANNELS)
ReadingFields(l) == Take(Tail(Split(l)), NUM_CHANNELS)
FieldFails(f) == f # <<>> /\ ~ParsesF64(TrimEndC(f))
Reading(f) == IF f = <<>> THEN None ELSE Some(ParseF64(TrimEndC(f)))
\* The first field the loop of lines 111-119 panics on, 0 when there is none.
FirstFailing(fs) ==
    IF \E i \in 1 .. Len(fs) : FieldFails(fs[i])
    THEN CHOOSE i \in 1 .. Len(fs) :
           FieldFails(fs[i]) /\ \A j \in 1 .. (i - 1) : ~FieldFails(fs[j])
    ELSE 0

\* Lines 98-108: chars().next().unwrap() panics on an empty line; an info
\* string is printed (handle_info_string) and the call returns; the
\* timestamp's parse().unwrap() panics on anything but a u64.
AppendParse ==
    /\ ProcessAlive
    /\ pc[Ingest] = "append"
    /\ IF Len(new_data) = 0
       THEN /\ Panic(Ingest)
            /\ UNCHANGED <<serial_buf, new_data, time, datetime_received>>
       ELSE IF IsInfoString(new_data)
       THEN /\ pc' = [pc EXCEPT ![Ingest] = "dispatch"]
            /\ serial_buf' = AfterLine(serial_buf)
            /\ new_data' = <<>>
            /\ UNCHANGED <<lockVars, time, datetime_received>>
       ELSE IF ~ParsesU64(Split(new_data)[1])
       THEN /\ Panic(Ingest)
            /\ UNCHANGED <<serial_buf, new_data, time, datetime_received>>
       ELSE /\ time' = ParseU64(Split(new_data)[1])
            /\ datetime_received' = FormatReceipt(now)
            /\ pc' = [pc EXCEPT ![Ingest] = "lockChannels"]
            /\ UNCHANGED <<lockVars, serial_buf, new_data>>
    /\ UNCHANGED <<plotVars, storeVars, selected_port_name, deviceVars, port, dispatched,
                   clockVars, saveVars, events>>

\* Line 110
AppendLockChannels ==
    /\ ProcessAlive
    /\ pc[Ingest] = "lockChannels"
    /\ LockUnwrap(Ingest, "channels", "push")
    /\ UNCHANGED <<plotVars, storeVars, selected_port_name, deviceVars, ingestVars, clockVars,
                   saveVars, events>>

\* AppendPush with the channels guard dropped when the loop is over, before
\* timestamp_datetime is locked.
AppendPush_DropsGuard ==
    /\ ProcessAlive
    /\ pc[Ingest] = "push"
    /\ LET fs == ReadingFields(new_data)
           bad == FirstFailing(fs)
           done == IF bad = 0 THEN Len(fs) ELSE bad - 1
       IN /\ channels' = [i \in Chan |->
                            IF i + 1 <= done
                            THEN [channels[i] EXCEPT
                                    !.data = Append(@, <<time, Reading(fs[i + 1])>>)]
                            ELSE channels[i]]
          /\ IF bad = 0
             THEN /\ pc' = [pc EXCEPT ![Ingest] = "lockTimestamps"]
                  /\ lockHolder' = [lockHolder EXCEPT !["channels"] = NoThread]
                  /\ UNCHANGED poisoned
             ELSE Panic(Ingest)
    /\ UNCHANGED <<plotVars, timestamp_datetime, selected_port_name, deviceVars, ingestVars,
                   clockVars, saveVars, events>>

\* AppendPush with every new sample put in front of the channel's samples.
AppendPush_Prepends ==
    /\ ProcessAlive
    /\ pc[Ingest] = "push"
    /\ LET fs == ReadingFields(new_data)
           bad == FirstFailing(fs)
           done == IF bad = 0 THEN Len(fs) ELSE bad - 1
       IN /\ channels' = [i \in Chan |->
                            IF i + 1 <= done
                            THEN [channels[i] EXCEPT
                                    !.data = <<<<time, Reading(fs[i + 1])>>>> \o @]
                            ELSE channels[i]]
          /\ IF bad = 0
             THEN /\ pc' = [pc EXCEPT ![Ingest] = "lockTimestamps"]
                  /\ UNCHANGED lockVars
             ELSE Panic(Ingest)
    /\ UNCHANGED <<plotVars, timestamp_datetime, selected_port_name, deviceVars, ingestVars,
                   clockVars, saveVars, events>>

\* Lines 111-119: channel i is zipped with reading field i; the fields
\* before the first failing one are pushed, then the parse panics with the
\* channels guard held.
AppendPush ==
    /\ ProcessAlive
    /\ pc[Ingest] = "push"
    /\ LET fs == ReadingFields(new_data)
           bad == FirstFailing(fs)
           done == IF bad = 0 THEN Len(fs) ELSE bad - 1
       IN /\ channels' = [i \in Chan |->
                            IF i + 1 <= done
                            THEN [channels[i] EXCEPT
                                    !.data = Append(@, <<time, Reading(fs[i + 1])>>)]
                            ELSE channels[i]]
          /\ IF bad = 0
             THEN /\ pc' = [pc EXCEPT ![Ingest] = "lockTimestamps"]
                  /\ UNCHANGED lockVars
             ELSE Panic(Ingest)
    /\ UNCHANGED <<plotVars, timestamp_datetime, selected_port_name, deviceVars, ingestVars,
                   clockVars, saveVars, events>>

\* Line 121, with the channels guard still held
AppendLockTimestamps ==
    /\ ProcessAlive
    /\ pc[Ingest] = "lockTimestamps"
    /\ LockUnwrap(Ingest, "timestamp_datetime", "pushTimestamp")
    /\ UNCHANGED <<plotVars, storeVars, selected_port_name, deviceVars, ingestVars, clockVars,
                   saveVars, events>>

\* Lines 122-123 and 86: the receipt entry is pushed, both guards are
\* dropped, the call returns and the line leaves serial_buf.
AppendPushTimestamp ==
    /\ ProcessAlive
    /\ pc[Ingest] = "pushTimestamp"
    /\ timestamp_datetime' = Append(timestamp_datetime, <<time, datetime_received>>)
    /\ lockHolder' = [m \in Mutexes |-> IF lockHolder[m] = Ingest THEN NoThread ELSE lockHolder[m]]
    /\ pc' = [pc EXCEPT ![Ingest] = "dispatch"]
    /\ serial_buf' = AfterLine(serial_buf)
    /\ new_data' = <<>>
    /\ time' = 0
    /\ datetime_received' = <<>>
    /\ UNCHANGED <<plotVars, poisoned, channels, selected_port_name, deviceVars, port,
                   dispatched, clockVars, saveVars, events>>


\* ------------------------------------------------------------ save_to_csv
\* Lines 29-32
Headers ==
    <<"Time since start (ms)", "datetime of data">>
      \o [i \in 1 .. NUM_CHANNELS |-> "Sensor " \o ToString(i)]

\* Lines 39-43: the record of index i (from 1); channel.data[i] is an
\* index into every channel.
HasRecord(i) == \A c \in Chan : i <= Len(channels[c].data)
Temperature(r) == IF r = None THEN <<>> ELSE F64ToText(r[1])
Record(i) ==
    <<U64ToText(timestamp_datetime[i][1]), timestamp_datetime[i][2]>>
      \o [c \in 1 .. NUM_CHANNELS |-> Temperature(channels[c - 1].data[i][2])]

DataRows(s) == IF written[s] = <<>> THEN <<>> ELSE Tail(written[s])
\* The calls of one thread are numbered by the files it has created.
CallOf(s) == Cardinality({f \in files : f.by = s}) + 1

\* Lines 25-33: the name is taken from the clock, the file is created
\* (truncated when it exists) and the header written; either can fail, and
\* unwrap() then panics with no guard held.
SaveCreate(s) ==
    /\ ProcessAlive
    /\ pc[s] = "create"
    /\ LET name == FormatFileTime(now)
           file == [name |-> name, by |-> s, call |-> CallOf(s)]
       IN \E outcome \in {"ok", "create fails", "write fails"} :
            /\ fileName' = [fileName EXCEPT ![s] = name]
            /\ files' = IF outcome = "create fails" THEN files ELSE files \cup {file}
            /\ written' = [written EXCEPT ![s] = IF outcome = "ok" THEN <<Headers>> ELSE <<>>]
            /\ IF outcome = "ok"
               THEN /\ pc' = [pc EXCEPT ![s] = "lockChannels"]
                    /\ UNCHANGED lockVars
               ELSE Panic(s)
    /\ UNCHANGED <<plotVars, storeVars, selected_port_name, deviceVars, ingestVars, clockVars,
                   events>>

\* Line 35: the guard lives to the end of the function.
SaveLockChannels(s) ==
    /\ ProcessAlive
    /\ pc[s] = "lockChannels"
    /\ LockUnwrap(s, "channels", "lockTimestamps")
    /\ UNCHANGED <<plotVars, storeVars, selected_port_name, deviceVars, ingestVars, clockVars,
                   saveVars, events>>

\* SaveLockTimestamps with the channels guard dropped once the receipt log
\* is locked: the records are read from the channels without their guard.
SaveLockTimestamps_DropsChannels(s) ==
    /\ ProcessAlive
    /\ pc[s] = "lockTimestamps"
    /\ lockHolder["timestamp_datetime"] = NoThread
    /\ IF poisoned["timestamp_datetime"] # NoThread
       THEN Panic(s)
       ELSE /\ lockHolder' = [lockHolder EXCEPT !["timestamp_datetime"] = s,
                                                !["channels"] = NoThread]
            /\ pc' = [pc EXCEPT ![s] = "rows"]
            /\ UNCHANGED poisoned
    /\ UNCHANGED <<plotVars, storeVars, selected_port_name, deviceVars, ingestVars, clockVars,
                   saveVars, events>>

\* Line 36
SaveLockTimestamps(s) ==
    /\ ProcessAlive
    /\ pc[s] = "lockTimestamps"
    /\ LockUnwrap(s, "timestamp_datetime", "rows")
    /\ UNCHANGED <<plotVars, storeVars, selected_port_name, deviceVars, ingestVars, clockVars,
                   saveVars, events>>

\* Lines 38-45, one round of the loop: channel.data[i] panics when a channel
\* is shorter than the receipt log, write_record(..).unwrap() when the
\* write fails; both guards are held.
SaveRow(s) ==
    /\ ProcessAlive
    /\ pc[s] = "rows"
    /\ LET i == Len(DataRows(s)) + 1 IN
         /\ i <= Len(timestamp_datetime)
         /\ IF ~HasRecord(i)
            THEN /\ Panic(s)
                 /\ UNCHANGED written
            ELSE \E ok \in BOOLEAN :
                   IF ok
                   THEN /\ written' = [written EXCEPT ![s] = Append(@, Record(i))]
                        /\ UNCHANGED <<pc, lockVars>>
                   ELSE /\ Panic(s)
                        /\ UNCHANGED written
    /\ UNCHANGED <<plotVars, storeVars, selected_port_name, deviceVars, ingestVars, clockVars,
                   files, fileName, events>>

\* Lines 47-49, after the last record: flush().unwrap(), then the guards
\* are dropped as the function returns.  The autosave thread goes back to
\* sleep (line 265).
SaveFlush(s) ==
    /\ ProcessAlive
    /\ pc[s] = "rows"
    /\ Len(DataRows(s)) >= Len(timestamp_datetime)
    /\ \E ok \in BOOLEAN :
         IF ok
         THEN /\ pc' = [pc EXCEPT ![s] = IF s = Autosave THEN "sleep" ELSE "done"]
              /\ lockHolder' = [m \in Mutexes |->
                                  IF lockHolder[m] = s THEN NoThread ELSE lockHolder[m]]
              /\ wakeAt' = IF s = Autosave THEN now + AUTOSAVE_SECONDS_INTERVAL ELSE wakeAt
              /\ UNCHANGED poisoned
         ELSE /\ Panic(s)
              /\ UNCHANGED wakeAt
    /\ UNCHANGED <<plotVars, storeVars, selected_port_name, deviceVars, ingestVars, now, saveVars,
                   events>>

\* Lines 264-267: the autosave thread's sleep ends, no sooner than
\* AUTOSAVE_SECONDS_INTERVAL after it began, and it calls save_to_csv.
AutosaveWake ==
    /\ ProcessAlive
    /\ pc[Autosave] = "sleep"
    /\ events < MaxEvents
    /\ events' = events + 1
    /\ now' = Max(now, wakeAt)
    /\ pc' = [pc EXCEPT ![Autosave] = "create"]
    /\ UNCHANGED <<plotVars, lockVars, storeVars, selected_port_name, deviceVars, ingestVars,
                   wakeAt, saveVars>>

\* ----------------------------------------------------------------- update
\* Lines 141-150, the start of a frame: the selected name is read, and
\* written when a port of the combo box is clicked; each guard is dropped
\* with its statement.
UpdateSelectPort ==
    /\ ProcessAlive
    /\ pc[UI] = "select"
    /\ lockHolder["selected_port_name"] = NoThread
    /\ \E clicked \in PortNames \cup {""} :
         selected_port_name' = IF clicked = "" THEN selected_port_name ELSE clicked
    /\ pc' = [pc EXCEPT ![UI] = "lockChannels"]
    /\ plotted' = [c \in Chan |-> <<>>]
    /\ UNCHANGED <<lockVars, storeVars, deviceVars, ingestVars, clockVars, saveVars, events,
                   widths, window_size>>

\* Lines 155-157: the width left for the plot is read; the channels guard
\* lives to the end of the closure.
UpdateLockChannels ==
    /\ ProcessAlive
    /\ pc[UI] = "lockChannels"
    /\ \E w \in widths : window_size' = w
    /\ LockUnwrap(UI, "channels", "grid")
    /\ UNCHANGED <<storeVars, selected_port_name, deviceVars, ingestVars, clockVars,
                   saveVars, events, widths, plotted>>

\* Lines 159-191: the grid, where a click on a checkbox or a colour button
\* changes that channel's attribute, and the Save Data button, where a click
\* spawns a thread that calls save_to_csv.
NextManual ==
    CHOOSE m \in ManualThreads :
        pc[m] = "unspawned" /\ \A k \in ManualThreads : pc[k] = "unspawned" => m[2] <= k[2]
UpdateGrid ==
    /\ ProcessAlive
    /\ pc[UI] = "grid"
    /\ \/ /\ pc' = [pc EXCEPT ![UI] = "plot"]
          /\ UNCHANGED <<channels, events>>
       \/ /\ events < MaxEvents
          /\ events' = events + 1
          /\ \/ /\ \E i \in Chan :
                     \/ channels' = [channels EXCEPT ![i].enabled = ~@]
                     \/ \E c \in PickedColours \ {channels[i].colour} :
                          channels' = [channels EXCEPT ![i].colour = c]
                /\ pc' = [pc EXCEPT ![UI] = "plot"]
             \/ /\ pc' = [pc EXCEPT ![UI] = "plot", ![NextManual] = "create"]
                /\ UNCHANGED channels
    /\ UNCHANGED <<plotVars, lockVars, timestamp_datetime, selected_port_name, deviceVars,
                   ingestVars, clockVars, saveVars>>

\* Line 202: the samples with a reading, as [time, temperature] points.
HasReading(sample) == sample[2] # None
\* AllPoints with the filter left out: a sample without a reading is a
\* point at 0.
AllPoints_KeepsMissing(data) ==
    [j \in 1 .. Len(data) |->
       <<data[j][1], IF HasReading(data[j]) THEN data[j][2][1] ELSE 0>>]
AllPoints(data) ==
    LET kept == SelectSeq(data, HasReading)
    IN [j \in 1 .. Len(kept) |-> <<kept[j][1], kept[j][2][1]>>]

\* Line 205: (n as f32 / window_size.x + 0.01).round() as usize, for w > 0.
\* round() rounds halves away from zero, so the exact value is
\* floor(n / w + 0.01 + 0.5).  In f32 the constant is 0.00999999978 and
\* each operation rounds to 24 bits, which moves the sum by less than
\* (n / w + 1) / 10^6: round() gives another integer only where the exact
\* sum is that close to a half, which it is for none of the n and w used.
PointsPerPixel(n, w) == (100 * n + 51 * w) \div (100 * w)

\* Iterator::step_by(step): the elements of index 0, step, 2 * step, ...
StepBy(points, step) ==
    [k \in 1 .. ((Len(points) + step - 1) \div step) |-> points[(k - 1) * step + 1]]

\* Lines 202-207
PlottedPoints(data, w) ==
    LET all_points == AllPoints(data)
        points_per_pixel == PointsPerPixel(Len(all_points), w)
    IN IF points_per_pixel < 2 THEN all_points ELSE StepBy(all_points, points_per_pixel)

\* Lines 193-213: a line is plotted for every enabled channel; the channels
\* guard is dropped when the closure ends.  Nothing of the frame before is
\* kept: each frame begins with an empty plot (UpdateSelectPort).
UpdatePlot ==
    /\ ProcessAlive
    /\ pc[UI] = "plot"
    /\ plotted' = [c \in Chan |->
                     IF channels[c].enabled
                     THEN PlottedPoints(channels[c].data, window_size)
                     ELSE <<>>]
    /\ lockHolder' = [m \in Mutexes |-> IF lockHolder[m] = UI THEN NoThread ELSE lockHolder[m]]
    /\ pc' = [pc EXCEPT ![UI] = "select"]
    /\ UNCHANGED <<poisoned, storeVars, selected_port_name, deviceVars, ingestVars,
                   clockVars, saveVars, events, widths, window_size>>

\* ------------------------------------------------------------------ Next
Next ==
    \/ DeviceSend
    \/ Tick
    \/ IngestPoll
    \/ IngestSleep
    \/ IngestConnect
    \/ IngestReadData
    \/ IngestReadIdle
    \/ IngestDispatch
    \/ AppendParse
    \/ AppendLockChannels
    \/ AppendPush
    \/ AppendLockTimestamps
    \/ AppendPushTimestamp
    \/ \E s \in SaveThreads : SaveCreate(s)
    \/ \E s \in SaveThreads : SaveLockChannels(s)
    \/ \E s \in SaveThreads : SaveLockTimestamps(s)
    \/ \E s \in SaveThreads : SaveRow(s)
    \/ \E s \in SaveThreads : SaveFlush(s)
    \/ AutosaveWake
    \/ UpdateSelectPort
    \/ UpdateLockChannels
    \/ UpdateGrid
    \/ UpdatePlot

Spec == Init /\ [][Next]_vars


\* Specifications that differ in what the device sends: any line with valid
\* fields; any line with at least NUM_CHANNELS reading fields.
ValidLines == {FullLine, GapLine, LongLine, ShortLine, InfoLine}
SpecValid == InitWith(ValidLines, TRUE) /\ [][Next]_vars
SpecNFields == InitWith(Lines \ {ShortLine}, TRUE) /\ [][Next]_vars

\* The device sends control directives of every prefix, among them ones that
\* read as data after the prefix, and full data lines.
InfoLines ==
    {InfoLine, <<"/">>, <<"?">> \o FullLine, <<"-">> \o FullLine}
SpecInfo == InitWith(InfoLines \cup {FullLine}, TRUE) /\ [][Next]_vars

\* The plot on its own: the UI loop over a store of n samples (every second
\* one without a reading when gaps is set), at the widths of Widths.
Series(n, gaps) ==
    [j \in 1 .. n |-> <<j - 1, IF gaps /\ j % 2 = 0 THEN None ELSE Some(j % 10)>>]
PlotSeries ==
    {Series(0, FALSE), Series(3, FALSE), Series(4, TRUE), Series(76, FALSE),
     Series(152, TRUE), Series(200, FALSE)}
InitPlot ==
    /\ \E d \in PlotSeries :
         /\ channels = [i \in Chan |->
                          [data |-> d, enabled |-> TRUE, colour |-> DEFAULT_LINE_COLOURS[i + 1]]]
         /\ timestamp_datetime = [j \in 1 .. Len(d) |-> <<d[j][1], <<"A", "B", "C", "D">>>>]
    /\ InitRest({}, TRUE, Widths)
NextPlot ==
    \/ UpdateSelectPort
    \/ UpdateLockChannels
    \/ UpdateGrid
    \/ UpdatePlot
SpecPlot == InitPlot /\ [][NextPlot]_vars

\* The stream on its own: the device, the ingestion thread and the combo
\* box of the UI, with reads that return any number of the bytes received.
NextStream ==
    \/ DeviceSend
    \/ UpdateSelectPort
    \/ IngestPoll
    \/ IngestSleep
    \/ IngestConnect
    \/ IngestReadData
    \/ IngestReadIdle
    \/ IngestDispatch
    \/ AppendParse
    \/ AppendLockChannels
    \/ AppendPush
    \/ AppendLockTimestamps
    \/ AppendPushTimestamp
SpecStream == InitWith(Lines, FALSE) /\ [][NextStream]_vars

\* ------------------------------------------------------------ properties
Samples == [c \in Chan |-> channels[c].data]
StoreData == <<Samples, timestamp_datetime>>
InAppend == pc[Ingest] \in {"append", "lockChannels", "push", "lockTimestamps", "pushTimestamp"}
Streaming == pc[Ingest] \in {"read", "dispatch"} \/ InAppend
LockStep == \A c \in Chan : Len(channels[c].data) = Len(timestamp_datetime)
\* A data line one of whose fields fails to parse
Malformed(l) ==
    /\ ~IsInfoString(l)
    /\ \/ ~ParsesU64(Split(l)[1])
       \/ \E i \in 1 .. Len(ReadingFields(l)) : FieldFails(ReadingFields(l)[i])

\* C1: whenever no append_data call is in progress, every channel has as
\* many samples as the receipt log has entries (the device sends only lines
\* with a valid timestamp and valid reading fields, any number of them).
C1_LockStep == ~InAppend => LockStep

\* C2: a reader holding the channels guard (update, save_to_csv) sees the
\* same number of samples in every channel, and save_to_csv holding both
\* guards sees as many receipt entries as samples (every data line carries
\* at least NUM_CHANNELS reading fields).
C2_AppendAtomic ==
    \A t \in {UI} \cup SaveThreads :
        lockHolder["channels"] = t =>
            /\ \A c, d \in Chan : Len(channels[c].data) = Len(channels[d].data)
            /\ lockHolder["timestamp_datetime"] = t =>
                   \A c \in Chan : Len(channels[c].data) = Len(timestamp_datetime)
\* An export holds both guards after a line has been appended.
C2_Witness ==
    \E s \in SaveThreads :
        /\ lockHolder["channels"] = s
        /\ lockHolder["timestamp_datetime"] = s
        /\ Len(timestamp_datetime) > NUM_EXAMPLES

\* C3: while append_data works on a line with a field that fails to parse,
\* no step changes a channel's samples or the receipt log.
C3_MalformedLeavesStore ==
    [][(InAppend /\ Malformed(new_data)) => StoreData' = StoreData]_vars

\* C4: once streaming, no step ends the ingestion loop, whatever the line
\* (no mutex having been poisoned by another thread).
C4_LoopNeverEnds ==
    [][(Streaming /\ \A m \in Mutexes : poisoned[m] = NoThread)
         => pc'[Ingest] # "panicked"]_vars

\* C5: the loop over a line with a valid timestamp and k < NUM_CHANNELS
\* valid reading fields pushes one sample onto every channel: the parsed
\* reading on channels 0..k-1, (time, None) on channels k..NUM_CHANNELS-1.
C5_ShortLinePadded ==
    [][(pc[Ingest] = "push" /\ pc'[Ingest] = "lockTimestamps"
          /\ Len(Tail(Split(new_data))) < NUM_CHANNELS)
         => \A c \in Chan :
              channels'[c].data =
                Append(channels[c].data,
                       IF c + 1 <= Len(Tail(Split(new_data)))
                       THEN <<time, Reading(Tail(Split(new_data))[c + 1])>>
                       ELSE <<time, None>>)]_vars

\* The data records a call has written are the first records of the store.
C6_RecordsOfStore ==
    \A s \in SaveThreads :
        \A i \in 1 .. Len(DataRows(s)) : HasRecord(i) /\ DataRows(s)[i] = Record(i)
\* From the first record to the flush no step changes the store, and the
\* call returns with one record for every entry.
C6_StoreHeld ==
    \A s \in SaveThreads :
        pc[s] = "rows" =>
            /\ StoreData' = StoreData
            /\ pc'[s] \in {"sleep", "done"} =>
                 /\ Len(DataRows(s)) = Len(timestamp_datetime)
                 /\ LockStep
\* C6: the data records one save_to_csv call writes are the entries of the
\* store at one moment: they are the first records of the store, the store
\* does not change from the first record to the flush although the
\* ingestion thread runs on, and the call ends with one record for every
\* entry of the receipt log and of each channel.
C6_ExportIsSnapshot == [](C6_RecordsOfStore) /\ [][C6_StoreHeld]_vars
\* An export has ended with the record of a line that came in after start.
C6_Witness ==
    \E s \in SaveThreads :
        /\ pc[s] \in {"sleep", "done"}
        /\ Len(DataRows(s)) > NUM_EXAMPLES
        /\ Len(DataRows(s)) = Len(timestamp_datetime)

\* C7: a failed export leaves the store's mutexes usable: none of them is
\* poisoned by a thread that ran save_to_csv.
C7_ExportFailureContained ==
    \A m \in StoreMutexes : poisoned[m] \notin SaveThreads

\* C8: a line that fails to parse leaves the store's mutexes usable: none
\* of them is poisoned by the ingestion thread.
C8_ParseFaultContained ==
    \A m \in StoreMutexes : poisoned[m] # Ingest

\* AwaitingPortSelection (1), Connected (2), Streaming (3); a panic leaves
\* the thread in the phase it was in.
Phase ==
    IF pc[Ingest] \in {"poll", "sleep"} THEN 1
    ELSE IF pc[Ingest] = "connect" THEN 2
    ELSE IF pc[Ingest] = "panicked" /\ port = "" THEN 2
    ELSE 3
C9_Awaits ==
    /\ selected_port_name = "" => (pc[Ingest] \in {"poll", "sleep"} /\ port = "")
    /\ pc[Ingest] = "connect" => selected_port_name \in PortNames
    /\ port # "" => port \in PortNames
C9_Order ==
    /\ Phase' \in {Phase, Phase + 1}
    /\ port' # port => (pc[Ingest] = "connect" /\ port' = selected_port_name)
\* C9: while selected_port_name is empty the ingestion thread polls and has
\* no port; the port it opens is the non-empty name the UI published; the
\* phases are passed in the order AwaitingPortSelection, Connected,
\* Streaming.
C9_Handshake == [](C9_Awaits) /\ [][C9_Order]_vars
\* The port has been opened and the loop reads from it.
C9_Witness == port \in PortNames /\ pc[Ingest] = "read"

\* C10: no two save_to_csv calls create a file of the same name.
C10_DistinctFileNames ==
    \A f, g \in files : f # g => f.name # g.name

\* C11: every exported file has its columns in the order datetime,
\* timestamp, Sensor 1 .. Sensor N: the header row names the receipt
\* datetime first and the device timestamp second, and every data record
\* has its NUM_CHANNELS + 2 fields in that order.
C11_ColumnOrder ==
    \A s \in SaveThreads :
        /\ written[s] # <<>> =>
             written[s][1] = <<"datetime of data", "Time since start (ms)">>
                               \o [i \in 1 .. NUM_CHANNELS |-> "Sensor " \o ToString(i)]
        /\ \A i \in 1 .. Len(DataRows(s)) :
             /\ Len(DataRows(s)[i]) = NUM_CHANNELS + 2
             /\ DataRows(s)[i][1] = timestamp_datetime[i][2]
             /\ DataRows(s)[i][2] = U64ToText(timestamp_datetime[i][1])

\* The indices of the samples that have a reading.
NonMissing(data) == {j \in 1 .. Len(data) : data[j][2] # None}
\* out[k], out[k + 1], .. are, in this order, the points of samples among
\* data[j], data[j + 1], .. that have a reading (no two samples of a
\* channel have the same time, so a point has one sample it can come from).
PointOf(out, data, k, i) ==
    data[i][2] # None /\ out[k] = <<data[i][1], data[i][2][1]>>
RECURSIVE PlotsFrom(_, _, _, _)
PlotsFrom(out, data, k, j) ==
    IF k > Len(out)
    THEN TRUE
    ELSE /\ \E i \in j .. Len(data) : PointOf(out, data, k, i)
         /\ PlotsFrom(out, data, k + 1,
                      (CHOOSE i \in j .. Len(data) : PointOf(out, data, k, i)) + 1)
PlotStep == pc[UI] = "plot" /\ pc'[UI] = "select"

\* C12: for every sample sequence and every width w > 0 the points plotted
\* for an enabled channel are a subsequence of the channel's samples that
\* have a reading: no more points than samples, in the samples' order, none
\* from a sample without a reading, and all of the samples with a reading
\* when the computed stride is less than 2.
C12_PlotIsSubsequence ==
    [][PlotStep =>
         \A c \in Chan :
           channels[c].enabled =>
             /\ Len(plotted'[c]) <= Len(channels[c].data)
             /\ PlotsFrom(plotted'[c], channels[c].data, 1, 1)
             /\ PointsPerPixel(Cardinality(NonMissing(channels[c].data)), window_size) < 2
                  => Len(plotted'[c]) = Cardinality(NonMissing(channels[c].data))]_vars
\* A frame has plotted some, not all, of the points of a channel that has
\* samples without a reading.
C12_Witness ==
    /\ pc[UI] = "select"
    /\ \E c \in Chan :
         /\ channels[c].enabled
         /\ Cardinality(NonMissing(channels[c].data)) < Len(channels[c].data)
         /\ 1 < Len(plotted[c])
         /\ Len(plotted[c]) < Cardinality(NonMissing(channels[c].data))

\* The step in which append_data returns from, or panics on, the line it
\* was handed.
ParseStep == pc[Ingest] = "append" /\ pc'[Ingest] # "append"

\* C13: a line whose first character is '#', '?', '/' or '-' is handled as
\* a control directive whatever follows the character: append_data returns
\* without a panic, no channel gets a sample, the receipt log gets no entry
\* and no channel's enabled flag or colour changes.
C13_InfoLineLeavesStore ==
    [][(ParseStep /\ Len(new_data) > 0 /\ new_data[1] \in {"#", "?", "/", "-"})
         => /\ pc'[Ingest] = "dispatch"
            /\ channels' = channels
            /\ timestamp_datetime' = timestamp_datetime]_vars
\* append_data has returned from a control directive; a data line was
\* appended before it.
C13_Witness ==
    /\ pc[Ingest] = "dispatch"
    /\ Len(dispatched) > 1
    /\ dispatched[Len(dispatched)] \in InfoLines \ {InfoLine}
    /\ Len(timestamp_datetime) > NUM_EXAMPLES
    /\ serial_buf = <<>>

\* The ingestion thread has ended at the open of the port (line 70): only
\* there does it panic without a port.
OpenFailed == pc[Ingest] = "panicked" /\ port = ""
C14_Unharmed ==
    OpenFailed =>
        /\ \A m \in Mutexes : lockHolder[m] # Ingest /\ poisoned[m] # Ingest
        /\ Len(timestamp_datetime) = NUM_EXAMPLES
        /\ \A c \in Chan : Len(channels[c].data) = NUM_EXAMPLES
C14_FailingStep ==
    (pc[Ingest] = "connect" /\ pc'[Ingest] = "panicked") =>
        /\ Holds(Ingest) = {}
        /\ lockVars' = lockVars
        /\ StoreData' = StoreData
        /\ \A t \in Threads \ {Ingest} : pc'[t] = pc[t]
\* C14: a failure to open the port after the handshake ends the ingestion
\* thread only: it holds no guard when it fails, the failing step changes
\* no mutex, no other thread and nothing of the store, and afterwards no
\* mutex is held or poisoned by the ingestion thread, so the UI loop and
\* the exports go on taking the store's guards; the store stays as seeded.
C14_OpenFailureContained == [](C14_Unharmed) /\ [][C14_FailingStep]_vars
\* The open has failed, a manual export has run to its end and the UI holds
\* the channels guard.
C14_Witness ==
    /\ OpenFailed
    /\ lockHolder["channels"] = UI
    /\ \E s \in ManualThreads :
         pc[s] = "done" /\ Len(DataRows(s)) = Len(timestamp_datetime)

\* The positions at which a thread is inside a blocking call: the sleeps of
\* lines 58 and 265, the serial read of line 76, the creation of the file
\* and the write of its header (lines 27-33), and the writes and the flush
\* of lines 44-47.
InBlockingCall(t) ==
    \/ t = Ingest /\ pc[t] \in {"sleep", "read"}
    \/ t = Autosave /\ pc[t] = "sleep"
    \/ t \in SaveThreads /\ pc[t] \in {"create", "rows"}

\* C15: a thread that is inside a serial read, a file create, write or
\* flush, or a sleep holds neither the channels guard nor the
\* timestamp_datetime guard.
C15_NoLockAcrossBlocking ==
    \A t \in Threads :
        InBlockingCall(t) => \A m \in StoreMutexes : lockHolder[m] # t

\* The mutex t is about to lock, "" when it is at no lock() call.
WaitsFor(t) ==
    IF pc[t] = "lockChannels" THEN "channels"
    ELSE IF pc[t] = "lockTimestamps" THEN "timestamp_datetime"
    ELSE IF (t = Ingest /\ pc[t] \in {"poll", "connect"}) \/ (t = UI /\ pc[t] = "select")
    THEN "selected_port_name"
    ELSE ""
Blocked(t) == WaitsFor(t) # "" /\ lockHolder[WaitsFor(t)] # NoThread
\* Every thread of D waits for a mutex that a thread of D holds.
Deadlocked(D) == D # {} /\ \A t \in D : Blocked(t) /\ lockHolder[WaitsFor(t)] \in D

\* C16: the mutexes are taken in one order by every thread: channels with
\* no guard held, timestamp_datetime with the channels guard and no other
\* held, selected_port_name with no guard held and given back before
\* another is taken; and with the ingestion thread, the autosave thread,
\* the manual exports and the UI interleaved in any way, no set of threads
\* is such that each waits for a mutex held by another of the set.
C16_LockOrder ==
    /\ \A t \in Threads :
         /\ WaitsFor(t) = "channels" => Holds(t) = {}
         /\ WaitsFor(t) = "timestamp_datetime" => Holds(t) = {"channels"}
         /\ WaitsFor(t) = "selected_port_name" => Holds(t) = {}
         /\ lockHolder["timestamp_datetime"] = t => lockHolder["channels"] = t
         /\ lockHolder["selected_port_name"] # t
    /\ \A D \in SUBSET {t \in Threads : Blocked(t)} : ~Deadlocked(D)
\* An export holds both guards of the store while the ingestion thread and
\* the UI wait for the channels guard.
C16_Witness ==
    \E s \in SaveThreads :
        /\ Holds(s) = StoreMutexes
        /\ Blocked(Ingest)
        /\ Blocked(UI)

\* The save_to_csv calls between their start and their end.
Exporting == {s \in SaveThreads : pc[s] \in {"create", "lockChannels", "lockTimestamps", "rows"}}

\* C17: at most one save_to_csv call is between its start and its end at
\* any time: neither the autosave thread nor a click on Save Data starts an
\* export while another one is in progress.
C17_OneExportAtATime == Cardinality(Exporting) <= 1

\* round(n / w) for w > 0, halves away from zero
RoundDiv(n, w) == (2 * n + w) \div (2 * w)

\* C18: the stride computed for a channel with n points at width w is
\* round(n / w), and when it is at least 2 the points plotted are those of
\* index 0, stride, 2 * stride, .. among the channel's points.
C18_StrideIsRounded ==
    [][PlotStep =>
         \A c \in Chan :
           channels[c].enabled =>
             LET points == AllPoints(channels[c].data)
                 stride == RoundDiv(Len(points), window_size)
             IN /\ PointsPerPixel(Len(points), window_size) = stride
                /\ (stride >= 2) =>
                     /\ Len(plotted'[c]) = (Len(points) + stride - 1) \div stride
                     /\ \A k \in 1 .. Len(plotted'[c]) :
                          plotted'[c][k] = points[(k - 1) * stride + 1]]_vars

\* The carriage-return-terminated segments of a stream, without their CR.
RECURSIVE Segments(_)
Segments(stream) ==
    IF Find(stream, CR) = 0
    THEN <<>>
    ELSE <<SubSeq(stream, 1, Find(stream, CR) - 1)>> \o Segments(AfterLine(stream))
\* The lines, each with its CR, one after the other.
RECURSIVE Flat(_)
Flat(ls) == IF ls = <<>> THEN <<>> ELSE Head(ls) \o <<CR>> \o Flat(Tail(ls))
\* The last line dispatched is still in serial_buf: append_data has not
\* returned from it.
InFlight == Len(dispatched) > 0 /\ (InAppend \/ pc[Ingest] = "panicked")
\* What has been dispatched and has left serial_buf, what is in serial_buf
\* and what is still to be read make up the stream, in this order; no line
\* dispatched holds a CR; a read is made only when serial_buf holds no CR.
C19_InOrder ==
    /\ sent = Flat(IF InFlight THEN SubSeq(dispatched, 1, Len(dispatched) - 1) ELSE dispatched)
                \o serial_buf \o wire
    /\ \A i \in 1 .. Len(dispatched) : Find(dispatched[i], CR) = 0
    /\ InFlight =>
         /\ new_data = dispatched[Len(dispatched)]
         /\ SubSeq(serial_buf, 1, Len(new_data) + 1) = new_data \o <<CR>>
    /\ pc[Ingest] = "read" => Find(serial_buf, CR) = 0
\* C19: however the stream is split into reads, with timeouts, empty reads
\* and read errors between them, the lines dispatched to append_data are
\* the CR-terminated segments of the stream, in the stream's order, each
\* once and without its CR; the text after the last CR stays in serial_buf
\* and is dispatched whole once its CR has come: the ingestion thread never
\* stops with a segment of the stream left undispatched.
C19_LinesReassembled ==
    /\ C19_InOrder
    /\ pc[Ingest] = "panicked" => dispatched = Segments(sent)

IsPrefix(a, b) == Len(a) <= Len(b) /\ SubSeq(b, 1, Len(a)) = a
\* What a step may do to the store: extend it at the end, and only from
\* within append_data; a step of the UI or of an export leaves the samples
\* and the receipt log as they are, and an export leaves the enabled flags
\* and the colours too.
C20_Step ==
    /\ \A c \in Chan : IsPrefix(channels[c].data, channels'[c].data)
    /\ IsPrefix(timestamp_datetime, timestamp_datetime')
    /\ StoreData' # StoreData =>
         /\ pc[Ingest] \in {"push", "pushTimestamp"}
         /\ pc'[Ingest] # pc[Ingest]
         /\ \A c \in Chan :
              channels'[c].data # channels[c].data =>
                /\ c + 1 <= Len(ReadingFields(new_data))
                /\ channels'[c].data =
                     Append(channels[c].data,
                            <<time, Reading(ReadingFields(new_data)[c + 1])>>)
         /\ timestamp_datetime' # timestamp_datetime =>
              timestamp_datetime' = Append(timestamp_datetime, <<time, datetime_received>>)
    /\ pc'[UI] # pc[UI] => StoreData' = StoreData
    /\ \A s \in SaveThreads :
         (pc'[s] # pc[s] \/ written'[s] # written[s]) => storeVars' = storeVars
    /\ pc'[Ingest] # pc[Ingest] =>
         \A c \in Chan : /\ channels'[c].enabled = channels[c].enabled
                         /\ channels'[c].colour = channels[c].colour
\* C20: across every step of every thread each channel's samples and the
\* receipt log are a prefix of what they are after the step; only a step of
\* append_data in the ingestion thread extends them, by the sample of the
\* line it works on; the UI changes enabled flags and colours only, and an
\* export changes nothing of the store.
C20_AppendOnly == [][C20_Step]_vars
\* A line was appended to the seeded store, and the UI has switched a
\* channel off.
C20_Witness ==
    /\ Len(timestamp_datetime) > NUM_EXAMPLES
    /\ \E c \in Chan : ~channels[c].enabled /\ Len(channels[c].data) > NUM_EXAMPLES

====
